---- MODULE Spec2Model ----
(***************************************************************************)
(* crunchy-proxy: NewProxy's seeding of the node pools (setupPools and     *)
(* connect.Connect), the startup of a client session and the per-client    *)
(* serving loop of Proxy.HandleConnection (src/proxy/proxy.go), the pool   *)
(* collections behind getPool/returnPool and the Stats map under p.lock.   *)
(* One process per accepted client (goroutine); the steps of a process are *)
(* the statements at which another goroutine can observe or change shared  *)
(* state (channel operations, the mutex, reads and writes of a             *)
(* connection).  setupPools runs alone, before any client is accepted.     *)
(***************************************************************************)
EXTENDS Integers, Sequences, FiniteSets, TLC

(* ------------------------------ bounds -------------------------------- *)
\* concurrent client connections handed to HandleConnection
NumSessions == 2
\* client frames the sessions read in their serving loops, all together
MaxFrames == 3
\* client frames the session of the drain specification reads
MaxDrainFrames == 2
\* replica nodes of the configuration (there is one master)
NumReplicas == 1
\* config.GetPoolCapacity(): connections per node pool
Capacity == 1
\* saturation of the per-response read counter kept for the drain claims
MaxReads == 2

(* ------------------- protocol constants (bytes) ----------------------- *)
\* 'Q'
QueryMessageType == 81
\* 'X'
TerminateMessageType == 88
\* 'Z'
ReadyForQueryMessageType == 90

\* the version code of an SSL request, and the one-byte answers 'S' and 'N'
SSLRequestCode == 80877103
SSLAllowed == 83
SSLNotAllowed == 78

(* --------------------------- configuration ---------------------------- *)
MasterName == "master"
ReplicaNames == <<"replica1", "replica2", "replica3">>
Replicas == {ReplicaNames[i] : i \in 1..NumReplicas}
\* config.GetNodes(): node name -> role
Nodes == {MasterName} \cup Replicas
IsMaster(n) == n = MasterName

Sessions == 1..NumSessions
NoSession == 0

\* Go's nil for *pool.Pool and net.Conn, "" for the zero string
NilPool == "nil"
NoName == ""
NilConn == [node |-> "nil", id |-> 0]
Conns(n) == {[node |-> n, id |-> i] : i \in 1..Capacity}

Min(a, b) == IF a < b THEN a ELSE b

(* ------------------------- wire frames -------------------------------- *)
\* A frame on the wire: one type byte, a 4-byte big-endian length that
\* counts itself and the payload, then the payload.
Frame(tag, payload) == [tag |-> tag, payload |-> payload]
Encode(f) == <<f.tag, 0, 0, 0, 4 + Len(f.payload)>> \o f.payload
FrameSize(f) == 5 + Len(f.payload)

RECURSIVE Flatten(_)
Flatten(frames) ==
  IF frames = <<>> THEN <<>> ELSE Encode(Head(frames)) \o Flatten(Tail(frames))

\* protocol.GetMessageType: the type byte of the span; of an empty span (a
\* read of no bytes into the zeroed buffer) the zero byte
GetMessageType(m) == IF Len(m) = 0 THEN 0 ELSE m[1]

\* byte i (1-based) of a span of a zero-filled receive buffer
ByteAt(m, i) == IF i <= Len(m) THEN m[i] ELSE 0

\* protocol.GetMessageLength: the big-endian int32 in bytes 1..4 after the type
GetMessageLength(m) ==
  ((ByteAt(m, 2) * 256 + ByteAt(m, 3)) * 256 + ByteAt(m, 4)) * 256 + ByteAt(m, 5)

\* message[start:] for a 0-based start
SliceFrom(m, start) == SubSeq(m, start + 1, Len(m))

\* a scan that keeps a ready-for-query type once it has seen one
RECURSIVE ScanAnyReady(_, _, _)
ScanAnyReady(message, start, messageType) ==
  IF start < Len(message)
  THEN ScanAnyReady(message,
                    start + GetMessageLength(SliceFrom(message, start)) + 1,
                    IF messageType = ReadyForQueryMessageType
                    THEN messageType
                    ELSE GetMessageType(SliceFrom(message, start)))
  ELSE messageType

\* The scan of one batch, lines 282-297: messageType starts as the type of
\* message[:length] and is overwritten by the type of each frame the scan
\* visits; the scan advances by the frame's length field plus one.
RECURSIVE Scan(_, _, _)
Scan(message, start, messageType) ==
  IF start < Len(message)
  THEN Scan(message,
            start + GetMessageLength(SliceFrom(message, start)) + 1,
            GetMessageType(SliceFrom(message, start)))
  ELSE messageType

\* done after one pass of the drain loop body: set on a failed read (line
\* 279), set on a failed forward (line 302), then assigned at line 305
DrainDone(recvErr, sendErr, messageType) ==
  LET d1 == IF recvErr THEN TRUE ELSE FALSE
      d2 == IF sendErr THEN TRUE ELSE d1
      d3 == (messageType = ReadyForQueryMessageType)
  IN  d3

(* ------------------------ client frames ------------------------------- *)
\* What the serving loop can read from a client: a query with its
\* annotations, a terminate message, or a frame of another type (80, 'P').
Annotations == [start : BOOLEAN, end : BOOLEAN, read : BOOLEAN]
NoAnnotations == [start |-> FALSE, end |-> FALSE, read |-> FALSE]
ClientFrames ==
  {[type |-> QueryMessageType, ann |-> a] : a \in Annotations}
  \cup {[type |-> TerminateMessageType, ann |-> NoAnnotations],
        [type |-> 80, ann |-> NoAnnotations]}
NoFrame == [type |-> 0, ann |-> NoAnnotations]

\* getAnnotations(message)
getAnnotations(frame) == frame.ann

(* ---------------------- backend responses ----------------------------- *)
\* CommandComplete 'C', ReadyForQuery 'Z' with status 'I', NoticeResponse 'N',
\* DataRow 'D' whose payload holds the bytes of a ReadyForQuery header
Complete == Frame(67, <<1>>)
Ready == Frame(ReadyForQueryMessageType, <<73>>)
Notice == Frame(78, <<>>)
Row == Frame(68, <<ReadyForQueryMessageType, 0, 0, 0, 4>>)

\* responses of the backends of the concurrent specification
Responses == {<<Complete, Ready>>}
\* responses of the single-session drain specification: a plain response, a
\* response followed by an asynchronous notice, a response with a data row
DrainResponses ==
  {<<Complete, Ready>>, <<Ready, Notice>>, <<Row, Ready>>}

(* ------------------------ startup messages ---------------------------- *)
\* The first messages of a client: an SSL request, or a startup message of
\* protocol 3.0 whose user and database match the configured ones or not.
StartupFrames ==
  {[version |-> SSLRequestCode, credentials |-> "mismatch"],
   [version |-> 196608, credentials |-> "match"],
   [version |-> 196608, credentials |-> "mismatch"]}
\* the zeroed buffer connect.Receive returns with an error
ZeroMessage == [version |-> 0, credentials |-> "mismatch"]

\* protocol.GetVersion(message)
GetVersion(message) == message.version
\* connect.ValidateClient(message)
ValidateClient(message) == message.credentials = "match"

\* protocol.Error.GetMessage(): an 'E' frame with the severity and the code
ErrorSeverityFatal == <<70, 65, 84, 65, 76>>
ErrorCodeInvalidAuthorizationSpecification == <<50, 56, 48, 48, 48>>
GetMessage(severity, code) == Encode(Frame(69, severity \o code))

\* a session before its first receive, and one that went through a startup
\* without SSL request
NoStartup == [message |-> ZeroMessage, err |-> "nil", authenticated |-> FALSE]
NoHello ==
  [probe |-> FALSE, sent |-> <<>>, upgraded |-> FALSE, recv |-> "nil",
   checked |-> FALSE, exchanged |-> FALSE]
PastStartup ==
  [message |-> [version |-> 196608, credentials |-> "match"], err |-> "nil",
   authenticated |-> TRUE]
PastHello == [NoHello EXCEPT !.checked = TRUE, !.exchanged = TRUE]

(* ------------------------------ state --------------------------------- *)
VARIABLES
  readPools,      \* p.readPools: buffered channel of pools (FIFO of node names)
  writePools,     \* p.writePools
  connections,    \* pool.connections of each node pool: its free connections
  Stats,          \* p.Stats
  lock,           \* p.lock: the session holding it, or NoSession
  pc,             \* position of each HandleConnection in its code
  statementBlock, cp, backend, read, end, nodeName, done,
  count,          \* the value of Stats[nodeName] read by the += of line 262
  wire,           \* per backend connection: frames the backend has written
  cut,            \* bytes of Head(wire[c]) already read by the proxy
  env,            \* the environment of the run: clients, their frames, faults
  nframes,        \* client frames the sessions have read so far
  outside,        \* history: the query in hand is one outside a transaction block
  holds,          \* history: the session drew a connection and has not returned it
  sent,           \* history: query frames sent to each node's connections
  acq, rel,       \* history: Next and Return calls made for the current query
  blockRead,      \* history: "none", or the read/write intent of the open block's begin
  blockConn,      \* history: the connection the open block's begin was sent on
  reads,          \* history: backend reads of the current response (saturating)
  readErr,        \* history: a backend read of the current response failed
  batch,          \* history: frame structure of the last backend read
  spc,            \* position of setupPools in its code
  nodes,          \* setupPools: nodes the range loop has not visited yet
  name,           \* setupPools: the node of the current iteration
  ix,             \* setupPools: the loop counter i of line 70
  connection,     \* setupPools / Connect: the connection in hand
  err,            \* setupPools / Connect: the error in hand
  authenticated,  \* setupPools: the result of line 86
  made,           \* history: how each pooled connection was made
  startup,        \* per session: message, err, authenticated of lines 126-201
  hello           \* history: what the startup of each session did

shared == <<readPools, writePools, connections, Stats, lock>>
local == <<statementBlock, cp, backend, read, end, nodeName, done, count>>
net == <<wire, cut>>
hist == <<nframes, outside, holds, sent, acq, rel, blockRead, blockConn, reads,
          readErr, batch>>
seeding == <<spc, nodes, name, ix, connection, err, authenticated, made>>
boot == <<seeding, startup, hello>>
vars == <<shared, pc, local, net, env, hist, boot>>

AllConns == UNION {Conns(n) : n \in Nodes}

\* a net.Conn as Connect and setupPools see it: nil, or a transport with
\* the bytes Connect wrote to it, whether Connect read from it, the first
\* byte it read, and whether it was closed or upgraded
NilConnection ==
  [nil |-> TRUE, wrote |-> <<>>, asked |-> FALSE, response |-> 0,
   closed |-> FALSE, upgraded |-> FALSE]
Dialled == [NilConnection EXCEPT !.nil = FALSE]
\* a pooled connection that was dialled, accepted and authenticated
Sound == [conn |-> Dialled, authenticated |-> TRUE]
Unmade == [conn |-> NilConnection, authenticated |-> FALSE]
\* the last batch as the history keeps it: len is 0 for an empty read and 1
\* for any read that returned bytes, since only emptiness is ever consulted
NoBatch == [len |-> 0, aligned |-> FALSE, tags |-> <<>>]

\* every order in which setupPools' map iteration can have filled a channel
Orders(S) ==
  {q \in [1..Cardinality(S) -> S] : \A i, j \in 1..Cardinality(S) : q[i] = q[j] => i = j}

\* The proxy after NewProxy (setupPools with every seed connection added) and
\* each accepted client past authentication, at the top of the serving loop
\* with the zero values of lines 204-209.
InitProxy ==
  /\ readPools \in Orders(Replicas)
  /\ writePools = <<MasterName>>
  /\ connections = [n \in Nodes |-> [i \in 1..Capacity |-> [node |-> n, id |-> i]]]
  /\ Stats = [n \in Nodes \cup {NoName} |-> 0]
  /\ lock = NoSession
  /\ pc = [s \in Sessions |-> IF s \in env.clients THEN env.entry ELSE "closed"]
  /\ statementBlock = [s \in Sessions |-> FALSE]
  /\ cp = [s \in Sessions |-> NilPool]
  /\ backend = [s \in Sessions |-> NilConn]
  /\ read = [s \in Sessions |-> FALSE]
  /\ end = [s \in Sessions |-> FALSE]
  /\ nodeName = [s \in Sessions |-> NoName]
  /\ done = [s \in Sessions |-> FALSE]
  /\ count = [s \in Sessions |-> 0]
  /\ wire = [c \in AllConns |-> <<>>]
  /\ cut = [c \in AllConns |-> 0]
  /\ nframes = 0
  /\ outside = [s \in Sessions |-> FALSE]
  /\ holds = [s \in Sessions |-> FALSE]
  /\ sent = [n \in Nodes \cup {NoName} |-> 0]
  /\ acq = [s \in Sessions |-> 0]
  /\ rel = [s \in Sessions |-> 0]
  /\ blockRead = [s \in Sessions |-> "none"]
  /\ blockConn = [s \in Sessions |-> NilConn]
  /\ reads = [s \in Sessions |-> 0]
  /\ readErr = [s \in Sessions |-> FALSE]
  /\ batch = [s \in Sessions |-> NoBatch]
  /\ spc = "done"
  /\ nodes = {}
  /\ name = NoName
  /\ ix = 0
  /\ connection = NilConnection
  /\ err = FALSE
  /\ authenticated = FALSE
  /\ made = [c \in AllConns |-> Sound]
  /\ startup = [s \in Sessions |->
                  IF env.entry = "recv" THEN PastStartup ELSE NoStartup]
  /\ hello = [s \in Sessions |-> IF env.entry = "recv" THEN PastHello ELSE NoHello]

\* Concurrent sessions, any client frames, transport faults; the backend's
\* frames arrive whole (reads end on frame boundaries).
Init ==
  /\ env = [clients |-> Sessions, frames |-> ClientFrames, limit |-> MaxFrames,
            ssl |-> FALSE, entry |-> "recv", wellFormed |-> FALSE, faults |-> TRUE, split |-> "frame",
            responses |-> Responses]
  /\ InitProxy

\* Concurrent sessions of well-formed clients that send only read-annotated
\* queries (plain, begin, end) to backends that always answer.
ReadFrames ==
  {[type |-> QueryMessageType, ann |-> a] :
     a \in {b \in Annotations : b.read /\ ~(b.start /\ b.end)}}

InitRead ==
  /\ env = [clients |-> Sessions, frames |-> ReadFrames, limit |-> MaxFrames,
            ssl |-> FALSE, entry |-> "recv", wellFormed |-> TRUE, faults |-> FALSE, split |-> "frame",
            responses |-> Responses]
  /\ InitProxy

\* One session of plain and block queries to the master, whose backend's
\* bytes arrive in reads of any size.
DrainFrames ==
  {[type |-> QueryMessageType, ann |-> a] : a \in {b \in Annotations : ~b.read}}

InitDrain ==
  /\ env = [clients |-> {1}, frames |-> DrainFrames, limit |-> MaxDrainFrames,
            ssl |-> FALSE, entry |-> "recv", wellFormed |-> FALSE, faults |-> TRUE, split |-> "byte",
            responses |-> DrainResponses]
  /\ InitProxy

(* ------------------------ the serving loop ---------------------------- *)
\* lines 240-245: the block flag after a query's annotations
StatementBlockAfter(sb, ann) ==
  IF ann.start THEN TRUE ELSE IF ann.end THEN FALSE ELSE sb

\* lines 240-245: the end flag after a query's annotations
EndAfter(e, ann) ==
  IF ann.start THEN e ELSE IF ann.end THEN TRUE ELSE e

\* a fetch only while no pool or connection is set
NeedBackendOnlyIfUnset(sb, e, pool, conn) ==
  pool = NilPool \/ conn = NilConn

\* line 253: whether the query fetches a new backend
NeedBackend(sb, e, pool, conn) ==
  (~sb /\ ~e) \/ pool = NilPool \/ conn = NilConn

\* What connect.Receive(client) can return at line 214: an error (end of
\* stream or another), or a frame while the client still has frames to send.
\* A well-formed client ends its connection only outside a block and sends
\* an end-annotated query only to close the block it opened.
ClientReads(s) ==
  LET leaves == ~env.wellFormed \/ ~statementBlock[s]
      closes == ~env.wellFormed \/ statementBlock[s]
  IN  (IF leaves THEN {[err |-> TRUE, frame |-> NoFrame]} ELSE {})
      \cup {[err |-> FALSE, frame |-> f] :
              f \in {g \in env.frames :
                       /\ nframes < env.limit
                       /\ g.type = TerminateMessageType => leaves
                       /\ (g.ann.end /\ ~g.ann.start) => closes}}

\* lines 212-258: read one client frame and classify it
ClientReceive(s) ==
  /\ pc[s] = "recv"
  /\ \E r \in ClientReads(s) :
       LET ann == getAnnotations(r.frame)
           isQuery == ~r.err /\ r.frame.type = QueryMessageType
           sb == StatementBlockAfter(statementBlock[s], ann)
           e == EndAfter(end[s], ann)
       IN
       /\ done' = [done EXCEPT ![s] = FALSE]
       /\ nframes' = IF r.err THEN nframes ELSE nframes + 1
       /\ IF isQuery
          THEN /\ outside' = [outside EXCEPT ![s] =
                               ~statementBlock[s] /\ ~ann.start /\ ~ann.end]
               /\ statementBlock' = [statementBlock EXCEPT ![s] = sb]
               /\ end' = [end EXCEPT ![s] = e]
               /\ read' = [read EXCEPT ![s] = ann.read]
               /\ pc' = [pc EXCEPT ![s] =
                          IF NeedBackend(sb, e, cp[s], backend[s])
                          THEN "getPool" ELSE "lock"]
               /\ acq' = [acq EXCEPT ![s] = 0]
               /\ rel' = [rel EXCEPT ![s] = 0]
               /\ blockRead' = [blockRead EXCEPT ![s] =
                                 IF ann.start /\ @ = "none"
                                 THEN (IF ann.read THEN "read" ELSE "write")
                                 ELSE @]
          ELSE /\ pc' = [pc EXCEPT ![s] =
                          IF r.err \/ r.frame.type = TerminateMessageType
                          THEN "closed" ELSE "recv"]
               /\ UNCHANGED <<outside, statementBlock, end, read, acq, rel, blockRead>>
  /\ UNCHANGED <<shared, cp, backend, nodeName, count, net, env, boot,
                 holds, sent, blockConn, reads, readErr, batch>>

\* a receive that leaves the pool in the channel
ChanPeek(ch) == ch

\* the channel after a receive took its first element
ChanAfterReceive(ch) == Tail(ch)

\* line 254, getPool (lines 105-110): receive a pool from the channel of the
\* wanted role; blocks while the channel is empty
GetPool(s) ==
  /\ pc[s] = "getPool"
  /\ IF read[s]
     THEN /\ readPools # <<>>
          /\ cp' = [cp EXCEPT ![s] = Head(readPools)]
          /\ readPools' = ChanAfterReceive(readPools)
          /\ UNCHANGED writePools
     ELSE /\ writePools # <<>>
          /\ cp' = [cp EXCEPT ![s] = Head(writePools)]
          /\ writePools' = ChanAfterReceive(writePools)
          /\ UNCHANGED readPools
  /\ pc' = [pc EXCEPT ![s] = "next"]
  /\ UNCHANGED <<connections, Stats, lock, statementBlock, backend, read, end,
                 nodeName, done, count, net, env, boot, hist>>

\* pool.Next waits while the pool has no free connection
PoolCanNext(free) == free # <<>>

\* pool.Return waits while the pool, a bounded collection of Capacity
\* connections, is full
PoolCanReturn(free) == Len(free) < Capacity

\* lines 255-256, pool.Next: take the first of the pool's free connections
PoolNext(s) ==
  /\ pc[s] = "next"
  /\ PoolCanNext(connections[cp[s]])
  /\ backend' = [backend EXCEPT ![s] = Head(connections[cp[s]])]
  /\ connections' = [connections EXCEPT ![cp[s]] = Tail(@)]
  /\ nodeName' = [nodeName EXCEPT ![s] = cp[s]]
  /\ holds' = [holds EXCEPT ![s] = TRUE]
  /\ acq' = [acq EXCEPT ![s] = @ + 1]
  /\ pc' = [pc EXCEPT ![s] = "returnPool"]
  /\ UNCHANGED <<readPools, writePools, Stats, lock, statementBlock, cp, read,
                 end, done, count, net, env, boot, nframes, outside, sent,
                 rel, blockRead, blockConn, reads, readErr, batch>>

\* line 257, returnPool (lines 115-121): send the pool to the channel of the
\* role it was taken for; the channels hold len(nodes) pools
ReturnPool(s) ==
  /\ pc[s] = "returnPool"
  /\ IF read[s]
     THEN /\ Len(readPools) < Cardinality(Nodes)
          /\ readPools' = Append(readPools, cp[s])
          /\ UNCHANGED writePools
     ELSE /\ Len(writePools) < Cardinality(Nodes)
          /\ writePools' = Append(writePools, cp[s])
          /\ UNCHANGED readPools
  /\ pc' = [pc EXCEPT ![s] = "lock"]
  /\ UNCHANGED <<connections, Stats, lock, local, net, env, boot, hist>>

\* a Lock that never waits
LockFreeAlways(l) == TRUE

\* sync.Mutex: Lock returns only while no goroutine holds the mutex
LockFree(l) == l = NoSession

\* x + 1 in the int32 arithmetic of the Stats counters
Increment(x) == IF x = 2147483647 THEN -2147483647 - 1 ELSE x + 1

\* line 261
StatsLock(s) ==
  /\ pc[s] = "lock"
  /\ LockFree(lock)
  /\ lock' = s
  /\ pc' = [pc EXCEPT ![s] = "load"]
  /\ UNCHANGED <<readPools, writePools, connections, Stats, local, net, env, boot, hist>>

\* line 262, the read of p.Stats[nodeName] += 1
StatsLoad(s) ==
  /\ pc[s] = "load"
  /\ count' = [count EXCEPT ![s] = Stats[nodeName[s]]]
  /\ pc' = [pc EXCEPT ![s] = "store"]
  /\ UNCHANGED <<shared, statementBlock, cp, backend, read, end, nodeName, done,
                 net, env, boot, hist>>

\* line 262, the write of p.Stats[nodeName] += 1
StatsStore(s) ==
  /\ pc[s] = "store"
  /\ Stats' = [Stats EXCEPT ![nodeName[s]] = Increment(count[s])]
  /\ count' = [count EXCEPT ![s] = 0]
  /\ pc' = [pc EXCEPT ![s] = "unlock"]
  /\ UNCHANGED <<readPools, writePools, connections, lock, statementBlock, cp,
                 backend, read, end, nodeName, done, net, env, boot, hist>>

\* line 263
StatsUnlock(s) ==
  /\ pc[s] = "unlock"
  /\ lock' = NoSession
  /\ pc' = [pc EXCEPT ![s] = "send"]
  /\ UNCHANGED <<readPools, writePools, connections, Stats, local, net, env, boot, hist>>

(* --------------------- relay and response drain ----------------------- *)
\* lines 266-269, connect.Send(backend, message[:length]): the query goes to
\* the backend, which writes one response; a failed write is logged and the
\* loop goes on to the drain all the same
SendQuery(s) ==
  /\ pc[s] = "send"
  /\ \E ok \in {TRUE} \cup {~env.faults}, r \in env.responses :
       wire' = [wire EXCEPT ![backend[s]] = IF ok THEN @ \o r ELSE @]
  /\ sent' = [sent EXCEPT ![nodeName[s]] = @ + 1]
  /\ blockConn' = [blockConn EXCEPT ![s] =
                    IF blockRead[s] # "none" /\ @ = NilConn THEN backend[s] ELSE @]
  /\ reads' = [reads EXCEPT ![s] = 0]
  /\ readErr' = [readErr EXCEPT ![s] = FALSE]
  /\ batch' = [batch EXCEPT ![s] = NoBatch]
  /\ pc' = [pc EXCEPT ![s] = "drain"]
  /\ UNCHANGED <<shared, local, cut, env, boot, nframes, outside, holds, acq, rel,
                 blockRead>>

\* the frames left on a connection, and the bytes read of the first of them,
\* after k more bytes were taken
RECURSIVE Consume(_, _)
Consume(frames, k) ==
  IF frames # <<>> /\ k >= FrameSize(Head(frames))
  THEN Consume(Tail(frames), k - FrameSize(Head(frames)))
  ELSE [frames |-> frames, cut |-> k]

\* the byte counts a read of connection c can return: any prefix of what the
\* backend has written, or only prefixes that end where a frame ends
ReadSizes(c) ==
  LET total == Len(Flatten(wire[c])) - cut[c]
  IN  {n \in 1..total :
         env.split = "byte" \/ Consume(wire[c], cut[c] + n).cut = 0}

\* What connect.Receive(backend) can return at line 276: n bytes, with or
\* without an error, or an error and no bytes.
BackendReads(c) ==
  {[n |-> n, err |-> e] : n \in ReadSizes(c), e \in {FALSE} \cup {env.faults}}
  \cup (IF env.faults THEN {[n |-> 0, err |-> TRUE]} ELSE {})

\* lines 275-306: one pass of the drain loop: read a batch from the backend,
\* scan it, forward it to the client, decide done
BackendReceive(s) ==
  /\ pc[s] = "drain"
  /\ ~done[s]
  /\ \E r \in BackendReads(backend[s]) :
       LET c == backend[s]
           message == SubSeq(Flatten(wire[c]), cut[c] + 1, cut[c] + r.n)
           rest == Consume(wire[c], cut[c] + r.n)
           whole == Len(wire[c]) - Len(rest.frames)
           messageType == Scan(message, 0, GetMessageType(message))
           \* line 299: forwarding the batch to the client succeeds or fails
           outcomes == {DrainDone(r.err, sendErr, messageType) :
                          sendErr \in {FALSE} \cup {env.faults}}
       IN
       /\ wire' = [wire EXCEPT ![c] = rest.frames]
       /\ cut' = [cut EXCEPT ![c] = rest.cut]
       /\ \E d \in outcomes : done' = [done EXCEPT ![s] = d]
       /\ reads' = [reads EXCEPT ![s] = Min(@ + 1, MaxReads)]
       /\ readErr' = [readErr EXCEPT ![s] = @ \/ r.err]
       /\ batch' = [batch EXCEPT ![s] =
                     [len |-> Min(r.n, 1),
                      aligned |-> cut[c] = 0 /\ rest.cut = 0,
                      tags |-> [i \in 1..whole |-> wire[c][i].tag]]]
  /\ UNCHANGED <<shared, pc, statementBlock, cp, backend, read, end, nodeName,
                 count, env, boot, nframes, outside, holds, sent, acq, rel, blockRead,
                 blockConn>>

\* lines 312-319: the drain loop has ended; outside a block clear end and go
\* on to return the connection, inside a block read the next client frame
EndOfResponse(s) ==
  /\ pc[s] = "drain"
  /\ done[s]
  /\ IF ~statementBlock[s]
     THEN /\ end' = [end EXCEPT ![s] = FALSE]
          /\ pc' = [pc EXCEPT ![s] = "return"]
     ELSE /\ pc' = [pc EXCEPT ![s] = "recv"]
          /\ UNCHANGED end
  /\ reads' = [reads EXCEPT ![s] = 0]
  /\ readErr' = [readErr EXCEPT ![s] = FALSE]
  /\ batch' = [batch EXCEPT ![s] = NoBatch]
  /\ UNCHANGED <<shared, statementBlock, cp, backend, read, nodeName, done,
                 count, net, env, boot, nframes, outside, holds, sent, acq, rel,
                 blockRead, blockConn>>

\* line 322, pool.Return: put the connection behind the pool's free
\* connections
PoolReturn(s) ==
  /\ pc[s] = "return"
  /\ PoolCanReturn(connections[cp[s]])
  /\ connections' = [connections EXCEPT ![cp[s]] = Append(@, backend[s])]
  /\ holds' = [holds EXCEPT ![s] = FALSE]
  /\ rel' = [rel EXCEPT ![s] = @ + 1]
  /\ blockRead' = [blockRead EXCEPT ![s] = "none"]
  /\ blockConn' = [blockConn EXCEPT ![s] = NilConn]
  /\ pc' = [pc EXCEPT ![s] = "recv"]
  /\ UNCHANGED <<readPools, writePools, Stats, lock, local, net, env, boot, nframes,
                 outside, sent, acq, reads, readErr, batch>>

Next ==
  \E s \in Sessions :
    \/ ClientReceive(s)
    \/ GetPool(s)
    \/ PoolNext(s)
    \/ ReturnPool(s)
    \/ StatsLock(s)
    \/ StatsLoad(s)
    \/ StatsStore(s)
    \/ StatsUnlock(s)
    \/ SendQuery(s)
    \/ BackendReceive(s)
    \/ EndOfResponse(s)
    \/ PoolReturn(s)

Spec == Init /\ [][Next]_vars
SpecRead == InitRead /\ [][Next]_vars
SpecDrain == InitDrain /\ [][Next]_vars

(* ------------------ NewProxy: seeding the node pools ------------------ *)
\* MessageBuffer.WriteInt32: four bytes, most significant first
WriteInt32(x) ==
  <<(x \div 16777216) % 256, (x \div 65536) % 256, (x \div 256) % 256, x % 256>>

\* connect.go lines 54-56: the SSL request message
SSLRequest == WriteInt32(8) \o WriteInt32(SSLRequestCode)

\* first bytes a backend can answer an SSL request with: 'S', 'N', or the
\* 'E' of an error response
SSLResponses == {SSLAllowed, SSLNotAllowed, 69}

\* a negotiation whatever the configuration says
NegotiatesAlways(enable) == TRUE

\* connect.go line 42: the SSL negotiation runs only when
\* credentials.ssl.enable is set
Negotiates(enable) == enable

\* connect.go line 81: the response does not allow SSL
Refused(response) == response # SSLAllowed

\* what Connect hands back when it fails: no connection and the error
ConnectFails ==
  /\ connection' = NilConnection
  /\ err' = TRUE
  /\ spc' = "write"

\* proxy.go lines 59-67: the range loop visits a node (in any order), makes
\* its pool and sends the pool to the channel of the node's role
NewPool ==
  /\ spc = "range"
  /\ \E n \in nodes :
       /\ nodes' = nodes \ {n}
       /\ name' = n
       /\ IF IsMaster(n)
          THEN writePools' = Append(writePools, n) /\ UNCHANGED readPools
          ELSE readPools' = Append(readPools, n) /\ UNCHANGED writePools
  /\ ix' = 0
  /\ spc' = IF 0 < Capacity THEN "dial" ELSE "range"
  /\ UNCHANGED <<connections, Stats, lock, pc, local, net, env, hist,
                 connection, err, authenticated, made, startup, hello>>

\* proxy.go lines 59, 100-101: no node is left, setupPools returns
RangeEnd ==
  /\ spc = "range"
  /\ nodes = {}
  /\ spc' = "done"
  /\ UNCHANGED <<shared, pc, local, net, env, hist, nodes, name, ix, connection,
                 err, authenticated, made, startup, hello>>

\* proxy.go line 73, connect.go lines 36-42: net.Dial; on an error Connect
\* returns (nil, err), with SSL disabled it returns the plain connection
Dial ==
  /\ spc = "dial"
  /\ \E ok \in BOOLEAN :
       IF ok
       THEN /\ connection' = Dialled
            /\ err' = FALSE
            /\ spc' = IF Negotiates(env.ssl) THEN "request" ELSE "write"
       ELSE ConnectFails
  /\ UNCHANGED <<shared, pc, local, net, env, hist, nodes, name, ix,
                 authenticated, made, startup, hello>>

\* connect.go lines 54-65: write the SSL request; on an error Connect
\* returns (nil, err)
SendSSLRequest ==
  /\ spc = "request"
  /\ \E ok \in BOOLEAN :
       IF ok
       THEN /\ connection' = [connection EXCEPT !.wrote = @ \o SSLRequest]
            /\ spc' = "response"
            /\ UNCHANGED err
       ELSE ConnectFails
  /\ UNCHANGED <<shared, pc, local, net, env, hist, nodes, name, ix,
                 authenticated, made, startup, hello>>

\* connect.go lines 67-92: read the response; on an error Connect returns
\* (nil, err); a refused connection is closed, an allowed one upgraded, and
\* either is returned with a nil error
ReceiveSSLResponse ==
  /\ spc = "response"
  /\ \E r \in [err : {TRUE}, byte : {0}] \cup [err : {FALSE}, byte : SSLResponses] :
       IF r.err
       THEN ConnectFails
       ELSE /\ connection' = [connection EXCEPT !.asked = TRUE,
                                                !.response = r.byte,
                                                !.closed = Refused(r.byte),
                                                !.upgraded = ~Refused(r.byte)]
            /\ err' = FALSE
            /\ spc' = "write"
  /\ UNCHANGED <<shared, pc, local, net, env, hist, nodes, name, ix,
                 authenticated, made, startup, hello>>

\* proxy.go lines 75-84: write the startup message to the connection and
\* read the answer, results unchecked; a method call on the nil net.Conn
\* of a failed Connect panics
WriteStartupMessage ==
  /\ spc = "write"
  /\ spc' = IF connection.nil THEN "panic" ELSE "auth"
  /\ UNCHANGED <<shared, pc, local, net, env, hist, nodes, name, ix, connection,
                 err, authenticated, made, startup, hello>>

\* connect.HandleAuthenticationRequest: the backend accepts the credentials
\* or not; on a closed connection it cannot
AuthenticationResults(c) == IF c.closed THEN {FALSE} ELSE BOOLEAN

\* proxy.go lines 86-90: a failed authentication is logged
HandleAuthenticationRequest ==
  /\ spc = "auth"
  /\ authenticated' \in AuthenticationResults(connection)
  /\ spc' = "add"
  /\ UNCHANGED <<shared, pc, local, net, env, hist, nodes, name, ix, connection,
                 err, made, startup, hello>>

\* pool.Add: the connection joins the pool's free connections
PoolAdd(free, c) == Append(free, c)

\* proxy.go lines 92-99 and the step of the loop of line 70: when Connect
\* gave no error the connection is added to the pool
AddConnection ==
  /\ spc = "add"
  /\ LET c == [node |-> name, id |-> ix + 1]
     IN  IF err
         THEN UNCHANGED <<connections, made>>
         ELSE /\ connections' = [connections EXCEPT ![name] = PoolAdd(@, c)]
              /\ made' = [made EXCEPT ![c] =
                            [conn |-> connection, authenticated |-> authenticated]]
  /\ ix' = ix + 1
  /\ spc' = IF ix + 1 < Capacity THEN "dial" ELSE "range"
  /\ UNCHANGED <<readPools, writePools, Stats, lock, pc, local, net, env, hist,
                 nodes, name, connection, err, authenticated, startup, hello>>

\* NewProxy (lines 39-45) about to call setupPools: empty channels, no pool,
\* no client accepted yet; the SSL flag of the configuration is either value
InitSetup ==
  /\ env \in [clients : {{}}, frames : {{}}, limit : {0}, ssl : BOOLEAN,
               entry : {"recv"}, wellFormed : {TRUE}, faults : {TRUE}, split : {"frame"},
               responses : {Responses}]
  /\ readPools = <<>>
  /\ writePools = <<>>
  /\ connections = [n \in Nodes |-> <<>>]
  /\ Stats = [n \in Nodes \cup {NoName} |-> 0]
  /\ lock = NoSession
  /\ pc = [s \in Sessions |-> "closed"]
  /\ statementBlock = [s \in Sessions |-> FALSE]
  /\ cp = [s \in Sessions |-> NilPool]
  /\ backend = [s \in Sessions |-> NilConn]
  /\ read = [s \in Sessions |-> FALSE]
  /\ end = [s \in Sessions |-> FALSE]
  /\ nodeName = [s \in Sessions |-> NoName]
  /\ done = [s \in Sessions |-> FALSE]
  /\ count = [s \in Sessions |-> 0]
  /\ wire = [c \in AllConns |-> <<>>]
  /\ cut = [c \in AllConns |-> 0]
  /\ nframes = 0
  /\ outside = [s \in Sessions |-> FALSE]
  /\ holds = [s \in Sessions |-> FALSE]
  /\ sent = [n \in Nodes \cup {NoName} |-> 0]
  /\ acq = [s \in Sessions |-> 0]
  /\ rel = [s \in Sessions |-> 0]
  /\ blockRead = [s \in Sessions |-> "none"]
  /\ blockConn = [s \in Sessions |-> NilConn]
  /\ reads = [s \in Sessions |-> 0]
  /\ readErr = [s \in Sessions |-> FALSE]
  /\ batch = [s \in Sessions |-> NoBatch]
  /\ spc = "range"
  /\ nodes = Nodes
  /\ name = NoName
  /\ ix = 0
  /\ connection = NilConnection
  /\ err = FALSE
  /\ authenticated = FALSE
  /\ made = [c \in AllConns |-> Unmade]
  /\ startup = [s \in Sessions |-> NoStartup]
  /\ hello = [s \in Sessions |-> NoHello]

NextSetup ==
  \/ NewPool
  \/ RangeEnd
  \/ Dial
  \/ SendSSLRequest
  \/ ReceiveSSLResponse
  \/ WriteStartupMessage
  \/ HandleAuthenticationRequest
  \/ AddConnection

SpecSetup == InitSetup /\ [][NextSetup]_vars

(* ---------------- HandleConnection: the client's startup -------------- *)
\* What connect.Receive(client) can return at lines 126 and 163: a message,
\* or an error (end of stream or another) with the zeroed buffer
StartupReads ==
  {[err |-> "nil", message |-> f] : f \in StartupFrames}
  \cup {[err |-> e, message |-> ZeroMessage] : e \in {"EOF", "other"}}

\* an answer that always allows SSL
SSLResponseAllowed(enable) == <<SSLAllowed>>

\* lines 138-146: the one-byte answer to an SSL request
SSLResponse(enable) == IF enable THEN <<SSLAllowed>> ELSE <<SSLNotAllowed>>

\* connect.UpgradeServerConnection: the server side of the upgrade, when the
\* answer allowed SSL
UpgradeServerConnection(enable) == enable

\* a validation that rejects no message
InvalidNever(message) == FALSE

\* line 176: the client cannot be validated
Invalid(message) == ~ValidateClient(message)

\* connect.AuthenticateClient: whether the client authenticated, and the
\* error of the exchange
AuthenticationOutcomes == [authenticated : BOOLEAN, err : {"nil", "EOF", "other"}]

\* lines 126-146: receive the startup message (an error is logged and the
\* buffer used all the same) and look at its version
ReceiveStartup(s) ==
  /\ pc[s] = "startup"
  /\ \E r \in StartupReads :
       /\ startup' = [startup EXCEPT ![s].message = r.message, ![s].err = r.err]
       /\ hello' = [hello EXCEPT ![s].recv = r.err,
                                 ![s].probe = GetVersion(r.message) = SSLRequestCode]
       /\ pc' = [pc EXCEPT ![s] =
                  IF GetVersion(r.message) = SSLRequestCode
                  THEN "sslResponse" ELSE "validate"]
  /\ UNCHANGED <<shared, local, net, env, hist, seeding>>

\* lines 138-155: answer the SSL request (the result of the send is not
\* looked at) and upgrade the client connection
SendSSLResponse(s) ==
  /\ pc[s] = "sslResponse"
  /\ hello' = [hello EXCEPT ![s].sent = Append(@, SSLResponse(env.ssl)),
                            ![s].upgraded = UpgradeServerConnection(env.ssl)]
  /\ pc' = [pc EXCEPT ![s] = "reread"]
  /\ UNCHANGED <<shared, local, net, env, hist, seeding, startup>>

\* lines 163-166: read the startup message again; on end of stream the
\* session is over, any other error goes on with the zeroed buffer
RereadStartup(s) ==
  /\ pc[s] = "reread"
  /\ \E r \in StartupReads :
       /\ startup' = [startup EXCEPT ![s].message = r.message, ![s].err = r.err]
       /\ hello' = [hello EXCEPT ![s].recv = r.err]
       /\ pc' = [pc EXCEPT ![s] = IF r.err = "EOF" THEN "closed" ELSE "validate"]
  /\ UNCHANGED <<shared, local, net, env, hist, seeding>>

\* lines 176-186: a client that cannot be validated is sent the fatal error
\* message and the session is over
ValidateStartup(s) ==
  /\ pc[s] = "validate"
  /\ IF Invalid(startup[s].message)
     THEN /\ hello' = [hello EXCEPT
                        ![s].checked = TRUE,
                        ![s].sent = Append(@,
                          GetMessage(ErrorSeverityFatal,
                                     ErrorCodeInvalidAuthorizationSpecification))]
          /\ pc' = [pc EXCEPT ![s] = "closed"]
     ELSE /\ hello' = [hello EXCEPT ![s].checked = TRUE]
          /\ pc' = [pc EXCEPT ![s] = "authenticate"]
  /\ UNCHANGED <<shared, local, net, env, hist, seeding, startup>>

\* lines 190-201: the authentication exchange; end of stream ends the
\* session, so does a failed authentication (whose log line calls
\* err.Error(), a panic when err is nil), anything else enters the serving
\* loop
AuthenticateClient(s) ==
  /\ pc[s] = "authenticate"
  /\ \E r \in AuthenticationOutcomes :
       /\ startup' = [startup EXCEPT ![s].authenticated = r.authenticated,
                                     ![s].err = r.err]
       /\ pc' = [pc EXCEPT ![s] =
                  IF r.err = "EOF" THEN "closed"
                  ELSE IF ~r.authenticated
                       THEN (IF r.err = "nil" THEN "panic" ELSE "closed")
                       ELSE "recv"]
  /\ hello' = [hello EXCEPT ![s].exchanged = TRUE]
  /\ UNCHANGED <<shared, local, net, env, hist, seeding>>

\* One accepted client from its first message on, with either value of the
\* SSL flag; past its startup it sends any frames, over faulty transports.
InitStartup ==
  /\ env \in [clients : {{1}}, frames : {ClientFrames}, limit : {MaxFrames},
               ssl : BOOLEAN, entry : {"startup"}, wellFormed : {FALSE},
               faults : {TRUE}, split : {"frame"}, responses : {Responses}]
  /\ InitProxy

NextSession ==
  \E s \in Sessions :
    \/ ReceiveStartup(s)
    \/ SendSSLResponse(s)
    \/ RereadStartup(s)
    \/ ValidateStartup(s)
    \/ AuthenticateClient(s)
    \/ ClientReceive(s)
    \/ GetPool(s)
    \/ PoolNext(s)
    \/ ReturnPool(s)
    \/ StatsLock(s)
    \/ StatsLoad(s)
    \/ StatsStore(s)
    \/ StatsUnlock(s)
    \/ SendQuery(s)
    \/ BackendReceive(s)
    \/ EndOfResponse(s)
    \/ PoolReturn(s)

SpecStartup == InitStartup /\ [][NextSession]_vars

(* ------------------------------ claims -------------------------------- *)
Range(q) == {q[i] : i \in 1..Len(q)}
NoDuplicates(q) == \A i, j \in 1..Len(q) : q[i] = q[j] => i = j
InBlock(s) == blockRead[s] # "none"
\* the session holds pool n as its selection handle: between getPool and returnPool
HoldsHandle(s, n) == pc[s] \in {"next", "returnPool"} /\ cp[s] = n
\* the session has forwarded the query in hand and is draining its response
Forwarded(s) == pc[s] = "drain"

\* C1: from the moment the begin query of a transaction block is forwarded
\* until the end query's response is drained, every query of the block goes
\* to the connection begin went to, and the session holds that connection
\* checked out (drawn with Next and not returned) all that time.
C1_BlockPinnedUntilEnd ==
  \A s \in Sessions :
    (InBlock(s) /\ blockConn[s] # NilConn /\ pc[s] \notin {"return", "closed"})
      => (backend[s] = blockConn[s] /\ holds[s])

C3_RoutedByAnnotation ==
  /\ \A s \in Sessions :
       Forwarded(s) =>
         (~IsMaster(backend[s].node)
            <=> (IF InBlock(s) THEN blockRead[s] = "read" ELSE read[s]))
  /\ Range(readPools) \subseteq Replicas
  /\ Range(writePools) \subseteq {MasterName}

\* C4: a session that has ended holds no connection: what it drew with Next
\* it has returned with Return.
C4_ReleasedWhenSessionEnds ==
  \A s \in Sessions : pc[s] = "closed" => ~holds[s]

\* C5: for every node pool the free connections plus the connections
\* checked out by sessions are at most Capacity, no connection is in the
\* free connections twice, and no session returns a connection that is free.
C5_PoolConservation ==
  \A n \in Nodes :
    /\ Len(connections[n])
         + Cardinality({s \in Sessions : holds[s] /\ backend[s].node = n}) <= Capacity
    /\ NoDuplicates(connections[n])
    /\ \A s \in Sessions :
         (pc[s] = "return" /\ cp[s] = n) => backend[s] \notin Range(connections[n])

\* C6: no pool is the selection handle of two sessions at once, and a pool
\* held as a handle is in neither channel.
C6_HandleExclusive ==
  \A n \in Nodes :
    /\ Cardinality({s \in Sessions : HoldsHandle(s, n)}) <= 1
    /\ (\E s \in Sessions : HoldsHandle(s, n))
         => n \notin Range(readPools) \cup Range(writePools)

\* C6 witness: one session holds a pool as its handle while another waits in
\* getPool for a pool of the same role
C6_Witness ==
  \E s, t \in Sessions :
    /\ s # t
    /\ pc[s] = "next" /\ pc[t] = "getPool" /\ read[s] = read[t]
    /\ (IF read[t] THEN readPools ELSE writePools) = <<>>

\* a session waiting in a channel operation that cannot proceed
Blocked(s) ==
  \/ pc[s] = "getPool" /\ (IF read[s] THEN readPools ELSE writePools) = <<>>
  \/ pc[s] = "next" /\ ~PoolCanNext(connections[cp[s]])
  \/ pc[s] = "returnPool"
       /\ Len(IF read[s] THEN readPools ELSE writePools) >= Cardinality(Nodes)
  \/ pc[s] = "return" /\ ~PoolCanReturn(connections[cp[s]])

C8_StatsCountQueries ==
  /\ \A n \in Nodes :
       Stats[n] = sent[n]
         + Cardinality({s \in Sessions : nodeName[s] = n /\ pc[s] \in {"unlock", "send"}})
  /\ Stats[NoName] = 0
  /\ \A s \in Sessions : pc[s] \in {"load", "store", "unlock"} => lock = s

\* C8 witness: two sessions count a query for the same node at the same
\* time, one between its read and its write of the counter, one waiting for
\* the lock, after an earlier query was counted and sent
C8_Witness ==
  \E s, t \in Sessions :
    /\ s # t
    /\ pc[s] = "store" /\ pc[t] = "lock" /\ nodeName[s] = nodeName[t]
    /\ sent[nodeName[s]] >= 1

C9_ReadyNotLast ==
  \E s \in Sessions :
    /\ pc[s] = "drain" /\ ~done[s] /\ batch[s].aligned
    /\ \E i \in 1..(Len(batch[s].tags) - 1) :
         batch[s].tags[i] = ReadyForQueryMessageType

\* C10: once a backend read of the drain loop has failed, the loop is over:
\* the session is not left in the loop to read the backend again.
C10_DrainEndsOnReadError ==
  \A s \in Sessions : (pc[s] = "drain" /\ readErr[s]) => done[s]

\* Connect has returned to setupPools, which has not yet stepped to the next
\* seed connection
Connected == spc \in {"write", "auth", "add"}

\* C11: with SSL enabled, when the first byte of the backend's answer to the
\* SSL request is not 'S', the connection is closed, not upgraded, and
\* Connect reports an error to its caller.
C11_RefusalFailsCaller ==
  (Connected /\ connection.asked /\ Refused(connection.response))
    => (connection.closed /\ ~connection.upgraded /\ err)

\* C12: with SSL disabled, Connect returns after a successful dial the plain
\* connection with nothing written to it and nothing read from it, and never
\* enters the negotiation; whatever Connect writes is the 8-byte SSL request
\* and is written only with SSL enabled.
C12_NoProbeWhenDisabled ==
  /\ ~env.ssl =>
       /\ spc \notin {"request", "response"}
       /\ (Connected /\ ~err) => connection = Dialled
       /\ \A c \in AllConns : made[c].conn.wrote = <<>> /\ ~made[c].conn.asked
  /\ connection.wrote # <<>> =>
       (env.ssl /\ connection.wrote = <<0, 0, 0, 8, 4, 210, 22, 47>>)

\* C12 witness: SSL is disabled and Connect has returned a dialled connection
C12_Witness ==
  ~env.ssl /\ spc = "write" /\ ~connection.nil /\ ~err

\* C13: every connection in a node pool was dialled, passed the SSL
\* negotiation when SSL is enabled (answer 'S', upgraded, not closed), and
\* was authenticated.
C13_PooledAreAuthenticated ==
  \A n \in Nodes : \A c \in Range(connections[n]) :
    /\ ~made[c].conn.nil
    /\ env.ssl => (made[c].conn.response = SSLAllowed /\ made[c].conn.upgraded)
    /\ ~made[c].conn.closed
    /\ made[c].authenticated

\* the seed connections of node n that were dialled and authenticated
Healthy(n) == {c \in Conns(n) : ~made[c].conn.nil /\ made[c].authenticated}

\* C14: a seed connection whose dial or authentication fails does not abort
\* setupPools; it is left out, the remaining connections and nodes are
\* seeded, and at the end each pool holds exactly the connections that did
\* not fail (fewer than Capacity after a failure).
C14_FailedSeedSkipped ==
  /\ spc # "panic"
  /\ spc = "done" =>
       \A n \in Nodes :
         /\ Range(connections[n]) = Healthy(n)
         /\ Len(connections[n]) = Cardinality(Healthy(n))

\* the fatal error message of lines 177-183
pgError == GetMessage(ErrorSeverityFatal, ErrorCodeInvalidAuthorizationSpecification)
\* the positions of the serving loop
ServingPcs ==
  {"recv", "getPool", "next", "returnPool", "lock", "load", "store", "unlock",
   "send", "drain", "return"}
\* the session has relayed nothing: it drew no connection and no query was
\* counted or sent
NothingRelayed(s) ==
  /\ ~holds[s] /\ acq[s] = 0
  /\ cp[s] = NilPool /\ backend[s] = NilConn
  /\ \A n \in Nodes : Stats[n] = 0 /\ sent[n] = 0

\* C15: a session whose first message was an SSL request, with the SSL flag
\* disabled, has sent the byte 'N' and only that, has not upgraded the
\* connection, and reads the client again; on end of stream it is over with
\* no validation and nothing more sent; a message it reads is validated
\* first and authenticated only when valid.
C15_RefusedProbeThenPlaintext ==
  \A s \in Sessions :
    (hello[s].probe /\ ~env.ssl /\ pc[s] \notin {"startup", "sslResponse"}) =>
      /\ Head(hello[s].sent) = <<SSLNotAllowed>>
      /\ \A k \in 2..Len(hello[s].sent) : Len(hello[s].sent[k]) # 1
      /\ ~hello[s].upgraded
      /\ pc[s] = "reread" => Len(hello[s].sent) = 1
      /\ (pc[s] # "reread" /\ hello[s].recv = "EOF") =>
           /\ pc[s] = "closed"
           /\ ~hello[s].checked /\ ~hello[s].exchanged
           /\ Len(hello[s].sent) = 1
      /\ (pc[s] # "reread" /\ hello[s].recv = "nil") =>
           /\ pc[s] = "validate" \/ hello[s].checked
           /\ pc[s] = "validate" => ~hello[s].exchanged
           /\ hello[s].exchanged => ValidateClient(startup[s].message)

\* C15 witness: after the refusal the session has read a valid startup
\* message and is about to authenticate the client
C15_Witness ==
  \E s \in Sessions :
    hello[s].probe /\ ~env.ssl /\ pc[s] = "authenticate"

\* the other case of C15: the client closed the connection after the refusal
C15_ClosedAfterRefusal ==
  \E s \in Sessions :
    hello[s].probe /\ ~env.ssl /\ pc[s] = "closed" /\ hello[s].recv = "EOF"

\* C16: a session that has validated a startup message whose user or
\* database does not match is over, has sent the fatal invalid-authorization
\* error message once and as its last message, has not run the
\* authentication exchange and has relayed nothing.
C16_MismatchRejected ==
  \A s \in Sessions :
    (hello[s].checked /\ ~ValidateClient(startup[s].message)) =>
      /\ pc[s] = "closed"
      /\ hello[s].sent # <<>>
      /\ hello[s].sent[Len(hello[s].sent)] = pgError
      /\ Cardinality({k \in 1..Len(hello[s].sent) : hello[s].sent[k] = pgError}) = 1
      /\ ~hello[s].exchanged
      /\ NothingRelayed(s)

\* C16 witness: a protocol 3.0 startup message with the wrong user or
\* database was rejected
C16_Witness ==
  \E s \in Sessions :
    /\ hello[s].checked /\ pc[s] = "closed"
    /\ startup[s].message = [version |-> 196608, credentials |-> "mismatch"]

\* the startup of the session succeeded in every step
Accepted(s) ==
  /\ hello[s].recv = "nil"
  /\ hello[s].checked /\ ValidateClient(startup[s].message)
  /\ hello[s].exchanged /\ startup[s].authenticated /\ startup[s].err = "nil"

\* C19: a session is in its serving loop only after a startup message
\* received without error, accepted by ValidateClient and authenticated with
\* no error of the exchange; a session whose startup failed in any step has
\* relayed nothing.
C19_ServingOnlyAfterStartup ==
  \A s \in Sessions :
    /\ pc[s] \in ServingPcs => Accepted(s)
    /\ ~Accepted(s) => NothingRelayed(s)

\* the session has a query in hand that it is about to count, send or whose
\* response it drains
Relaying(s) == pc[s] \in {"lock", "load", "store", "unlock", "send", "drain"}
\* the query in hand was forwarded on the session's backend, whose response
\* is being drained
InUse(s) == pc[s] = "drain"

\* C17: a query that does not continue an open block (no begin of the
\* session has been forwarded since its last release) is relayed only on a
\* connection drawn from a pool for that query: one Next since the query was
\* read, and the connection still checked out.
C17_FreshBackendOutsideBlock ==
  \A s \in Sessions :
    (Relaying(s) /\ blockConn[s] = NilConn) => (acq[s] = 1 /\ holds[s])

\* C18: a backend connection is in use by at most one session at a time,
\* and a session uses a connection only between drawing it from its pool
\* and returning it (while in use it is not among the pool's free
\* connections).
C18_BackendExclusive ==
  /\ \A s, t \in Sessions :
       (s # t /\ InUse(s) /\ InUse(t)) => backend[s] # backend[t]
  /\ \A s \in Sessions :
       InUse(s) =>
         /\ holds[s]
         /\ backend[s] \notin Range(connections[backend[s].node])

\* two sessions drain responses from the same backend connection
C18_SharedBackend ==
  \E s, t \in Sessions : s # t /\ InUse(s) /\ InUse(t) /\ backend[s] = backend[t]

\* the last read of the session ended with the last byte of a
\* ready-for-query frame of the backend
ReadyLast(s) ==
  /\ cut[backend[s]] = 0
  /\ batch[s].tags # <<>>
  /\ batch[s].tags[Len(batch[s].tags)] = ReadyForQueryMessageType

\* C20: however the backend's bytes are split into reads, after a read that
\* returned bytes the drain loop stops exactly when that read ended with the
\* end of a ready-for-query frame: it does not stop on payload bytes that
\* look like a frame header, and does not go on past the real frame.
C20_StopsOnRealReady ==
  \A s \in Sessions :
    (pc[s] = "drain" /\ reads[s] >= 1 /\ batch[s].len > 0)
      => (done[s] <=> ReadyLast(s))

\* the loop has stopped although the frame being read is not finished
C20_StopsEarly ==
  \E s \in Sessions :
    pc[s] = "drain" /\ reads[s] >= 1 /\ done[s] /\ cut[backend[s]] > 0

\* the loop goes on although the ready-for-query frame has been read to
\* its end and the backend has written nothing more
C20_MissesReady ==
  \E s \in Sessions :
    /\ pc[s] = "drain" /\ reads[s] >= 1 /\ batch[s].len > 0 /\ ~done[s]
    /\ ReadyLast(s) /\ wire[backend[s]] = <<>>

====
